---- MODULE Spec2Model ----
(***************************************************************************)
(* Price-list backend (Express): credential store, price catalog store,    *)
(* session issuer, access guard and contact relay.  The repository holds   *)
(* three variants of the server; `variant` selects the one that is running *)
(*   "server" : src/server.js                     (nodemailer, Gmail)       *)
(*   "gmail"  : src/unnamed/part_001 lines 1-294   (nodemailer, optional)   *)
(*   "resend" : src/unnamed/part_001 lines 296-557 (Resend API)             *)
(***************************************************************************)
EXTENDS Integers, Sequences, FiniteSets, TLC

VARIABLES
    variant,        \* which of the three server sources is deployed
    up,             \* TRUE once startServer() has run ensureDataFiles and listens
    now,            \* the wall clock, Date.now(), in units of 12 hours
    pricesFile,     \* PRICES_FILE on disk: [exists, text]
    usersFile,      \* USERS_FILE on disk: [exists, ok, users]
    transporter,    \* TRUE iff the mail transport handle (transporter / resend) is non-null
    credential,     \* TRUE iff the environment of the process holds the provider credential
    issued,         \* tokens handed out by successful logins, with their issue time
    inflight,       \* fs.writeFile calls of PUT /api/prices that have not settled yet
    lastWrite,      \* the write to PRICES_FILE that landed last
    transportCalls, \* how many times the mail transport has been invoked
    last            \* the step taken last: the request and the response to it

vars == <<variant, up, now, pricesFile, usersFile, transporter, credential, issued, inflight,
          lastWrite, transportCalls, last>>

-----------------------------------------------------------------------------
(* Bounds of the model *)

MaxTime == 3
MaxTokens == 1
MaxInflight == 1
MaxCalls == 2

\* how many calls of fs.writeFile may be unsettled when administrators race
MaxRacing == 2

(* expiresIn: "24h", in clock units of 12 hours *)
TokenTTL == 2

-----------------------------------------------------------------------------
(* JavaScript values.  Every value is a record of one shape:               *)
(*   k : the kind, v : entries / characters, n : a number                  *)

Undefined == [k |-> "undefined", v |-> <<>>, n |-> 0]
Null == [k |-> "null", v |-> <<>>, n |-> 0]
Obj(entries) == [k |-> "object", v |-> entries, n |-> 0]
Arr(items) == [k |-> "array", v |-> items, n |-> 0]
Str(chars) == [k |-> "string", v |-> chars, n |-> 0]
\* new Date().toISOString() at clock value t: a non-empty string ordered like t
ISODate(t) == [k |-> "string", v |-> <<"T">>, n |-> t]

\* an entry of basePrices (key, price) or of districts (name, cost)
Entry(name, num) == [name |-> name, num |-> num]

\* !x is FALSE
Truthy(x) ==
    CASE x.k = "undefined" -> FALSE
      [] x.k = "null" -> FALSE
      [] x.k = "string" -> x.v # <<>>
      [] OTHER -> TRUE

-----------------------------------------------------------------------------
(* JSON text as a sequence of tokens *)

Tok(t, s, n) == [t |-> t, s |-> s, n |-> n]
Punct(s) == Tok("punct", s, 0)
Key(s) == Tok("key", s, 0)
StrTok(s) == Tok("string", s, 0)
NumTok(n) == Tok("number", "", n)
DateTok(n) == Tok("date", "", n)
NullTok == Tok("null", "", 0)

RECURSIVE StringifyEntries(_)
StringifyEntries(es) ==
    IF es = <<>> THEN <<>>
    ELSE <<Key(Head(es).name), NumTok(Head(es).num)>> \o StringifyEntries(Tail(es))

RECURSIVE StringifyItems(_)
StringifyItems(es) ==
    IF es = <<>> THEN <<>>
    ELSE <<Punct("{"), Key("name"), StrTok(Head(es).name),
           Key("cost"), NumTok(Head(es).num), Punct("}")>>
         \o StringifyItems(Tail(es))

\* JSON.stringify of a property: undefined properties are dropped
StringifyProp(key, x) ==
    CASE x.k = "undefined" -> <<>>
      [] x.k = "null" -> <<Key(key), NullTok>>
      [] x.k = "object" -> <<Key(key), Punct("{")>> \o StringifyEntries(x.v) \o <<Punct("}")>>
      [] x.k = "array" -> <<Key(key), Punct("[")>> \o StringifyItems(x.v) \o <<Punct("]")>>
      [] OTHER -> <<Key(key), DateTok(x.n)>>

\* a faulty JSONstringify: the districts property is left out of the written document
JSONstringifyNoDistricts(doc) ==
    <<Punct("{")>>
    \o StringifyProp("basePrices", doc.basePrices)
    \o StringifyProp("lastUpdated", doc.lastUpdated)
    \o <<Punct("}")>>

\* JSON.stringify(doc, null, 2) of {basePrices, districts, lastUpdated}
JSONstringify(doc) ==
    <<Punct("{")>>
    \o StringifyProp("basePrices", doc.basePrices)
    \o StringifyProp("districts", doc.districts)
    \o StringifyProp("lastUpdated", doc.lastUpdated)
    \o <<Punct("}")>>

ParseFail == [ok |-> FALSE, v |-> <<>>, next |-> 0]

\* "key": number pairs up to the closing brace; i is the next token to read
RECURSIVE ParseEntries(_, _, _)
ParseEntries(toks, i, acc) ==
    IF i > Len(toks) THEN ParseFail
    ELSE IF toks[i] = Punct("}") THEN [ok |-> TRUE, v |-> acc, next |-> i + 1]
    ELSE IF i + 1 <= Len(toks) /\ toks[i].t = "key" /\ toks[i + 1].t = "number"
         THEN ParseEntries(toks, i + 2, Append(acc, Entry(toks[i].s, toks[i + 1].n)))
    ELSE ParseFail

\* {"name": string, "cost": number} objects up to the closing bracket
RECURSIVE ParseItems(_, _, _)
ParseItems(toks, i, acc) ==
    IF i > Len(toks) THEN ParseFail
    ELSE IF toks[i] = Punct("]") THEN [ok |-> TRUE, v |-> acc, next |-> i + 1]
    ELSE IF /\ i + 5 <= Len(toks)
            /\ toks[i] = Punct("{")
            /\ toks[i + 1] = Key("name")
            /\ toks[i + 2].t = "string"
            /\ toks[i + 3] = Key("cost")
            /\ toks[i + 4].t = "number"
            /\ toks[i + 5] = Punct("}")
         THEN ParseItems(toks, i + 6, Append(acc, Entry(toks[i + 2].s, toks[i + 4].n)))
    ELSE ParseFail

EmptyDoc == [basePrices |-> Undefined, districts |-> Undefined, lastUpdated |-> Undefined]

\* the value that follows a top-level key at position i
ParseValue(toks, i) ==
    IF i > Len(toks) THEN ParseFail
    ELSE CASE toks[i] = NullTok -> [ok |-> TRUE, v |-> Null, next |-> i + 1]
           [] toks[i].t = "date" -> [ok |-> TRUE, v |-> ISODate(toks[i].n), next |-> i + 1]
           [] toks[i] = Punct("{") ->
                LET r == ParseEntries(toks, i + 1, <<>>)
                IN  IF r.ok THEN [ok |-> TRUE, v |-> Obj(r.v), next |-> r.next] ELSE ParseFail
           [] toks[i] = Punct("[") ->
                LET r == ParseItems(toks, i + 1, <<>>)
                IN  IF r.ok THEN [ok |-> TRUE, v |-> Arr(r.v), next |-> r.next] ELSE ParseFail
           [] OTHER -> ParseFail

\* the properties of the top-level object up to its closing brace
RECURSIVE ParseProps(_, _, _)
ParseProps(toks, i, doc) ==
    IF i > Len(toks) THEN [ok |-> FALSE, doc |-> EmptyDoc]
    ELSE IF toks[i] = Punct("}")
         THEN [ok |-> i = Len(toks), doc |-> IF i = Len(toks) THEN doc ELSE EmptyDoc]
    ELSE IF toks[i].t = "key" /\ toks[i].s \in DOMAIN doc
         THEN LET r == ParseValue(toks, i + 1)
              IN  IF r.ok
                  THEN ParseProps(toks, r.next, [doc EXCEPT ![toks[i].s] = r.v])
                  ELSE [ok |-> FALSE, doc |-> EmptyDoc]
    ELSE [ok |-> FALSE, doc |-> EmptyDoc]

\* JSON.parse(text): ok = FALSE when it throws SyntaxError
JSONparse(text) ==
    IF Len(text) >= 2 /\ text[1] = Punct("{")
    THEN ParseProps(text, 2, EmptyDoc)
    ELSE [ok |-> FALSE, doc |-> EmptyDoc]

-----------------------------------------------------------------------------
(* The deployed variant and its defaults *)

Variants == {"server", "gmail", "resend"}

\* the district list of ensureDataFiles in src/server.js and the Gmail variant
IstanbulDistricts ==
    << Entry("Arnavutkoy", 400), Entry("Atasehir", 300), Entry("Avcilar", 100),
       Entry("Bagcilar", 150), Entry("Bahcelievler", 150), Entry("Bakirkoy", 200),
       Entry("Basaksehir", 250), Entry("Bayrampasa", 200), Entry("Besiktas", 350),
       Entry("Beykoz", 400), Entry("Beylikduzu", 50), Entry("Beyoglu", 300),
       Entry("Buyukcekmece", 150), Entry("Catalca", 600), Entry("Cekmekoy", 350),
       Entry("Esenler", 200), Entry("Esenyurt", 0), Entry("Eyupsultan", 250),
       Entry("Fatih", 300), Entry("Gaziosmanpasa", 250), Entry("Gungoren", 200),
       Entry("Kadikoy", 350), Entry("Kagithane", 250), Entry("Kartal", 300),
       Entry("Kucukcekmece", 150), Entry("Maltepe", 300), Entry("Pendik", 350),
       Entry("Sancaktepe", 400), Entry("Sariyer", 400), Entry("Silivri", 700),
       Entry("Sultanbeyli", 400), Entry("Sultangazi", 300), Entry("Sile", 800),
       Entry("Sisli", 300), Entry("Tuzla", 400), Entry("Umraniye", 350),
       Entry("Uskudar", 350), Entry("Zeytinburnu", 250) >>

\* defaultPrices of ensureDataFiles, built at clock value t
defaultPrices(v, t) ==
    [ basePrices |-> Obj(<<Entry("p8", 24500), Entry("p10", 24200), Entry("p12", 23900)>>),
      districts |-> Arr(IF v = "resend" THEN <<Entry("Esenyurt", 0)>> ELSE IstanbulDistricts),
      lastUpdated |-> ISODate(t) ]

\* bcrypt.hashSync(password, 10)
hashSync(chars) == [alg |-> "bcrypt", of |-> chars]

\* defaultUsers of ensureDataFiles: one record under the key "admin"
defaultUsers ==
    { [key |-> <<"admin">>, username |-> <<"admin">>,
       password |-> hashSync(<<"admin123">>), role |-> "admin"] }

\* a file on disk
NoFile == [exists |-> FALSE, text |-> <<>>]
File(text) == [exists |-> TRUE, text |-> text]

\* what a file holding old holds after data was written from its start
overwrite(old, data) ==
    IF Len(data) >= Len(old) THEN data ELSE data \o SubSeq(old, Len(data) + 1, Len(old))

NoUsersFile == [exists |-> FALSE, ok |-> FALSE, users |-> {}]
UsersFileOf(users) == [exists |-> TRUE, ok |-> TRUE, users |-> users]

-----------------------------------------------------------------------------
(* Tokens (jsonwebtoken) *)

NoToken == [username |-> <<>>, role |-> "", iat |-> 0, exp |-> 0, sig |-> "none"]

\* a faulty jwtSign: expiresIn: "48h"
jwtSign48h(username, role, t) ==
    [username |-> username, role |-> role, iat |-> t, exp |-> t + 2 * TokenTTL,
     sig |-> "JWT_SECRET"]

\* jwt.sign(payload, JWT_SECRET, {expiresIn: "24h"}) at clock value t
jwtSign(username, role, t) ==
    [username |-> username, role |-> role, iat |-> t, exp |-> t + TokenTTL,
     sig |-> "JWT_SECRET"]

\* a faulty jwtVerifyErr: the expiry of the token is not checked
jwtVerifyErrIgnoreExpiration(word, t) ==
    \/ word.w # "jwt"
    \/ word.tok.sig # "JWT_SECRET"

\* jwt.verify(token, JWT_SECRET, cb): TRUE iff cb is called with err
jwtVerifyErr(word, t) ==
    \/ word.w # "jwt"                  \* not a well-formed JWT
    \/ word.tok.sig # "JWT_SECRET"     \* invalid signature
    \/ t >= word.tok.exp               \* TokenExpiredError

\* the words of an Authorization header, as authHeader.split(" ") yields them
NoHeader == [present |-> FALSE, words |-> <<>>]
Header(words) == [present |-> TRUE, words |-> words]
Word(w) == [w |-> w, tok |-> NoToken]
JwtWord(tok) == [w |-> "jwt", tok |-> tok]

\* a faulty splitSecond: split(" ")[0]
splitFirst(header) ==
    IF header.present /\ Len(header.words) >= 1 THEN header.words[1] ELSE Word("")

\* authHeader && authHeader.split(" ")[1]: undefined is the word ""
splitSecond(header) ==
    IF header.present /\ Len(header.words) >= 2 THEN header.words[2] ELSE Word("")

\* authenticateToken: status 0 means next() was called with req.user = user
authenticateToken(header, t) ==
    LET token == splitSecond(header)
    IN  IF token.w = ""
        THEN [status |-> 401, error |-> "Token gerekli", user |-> NoToken]
        ELSE IF jwtVerifyErr(token, t)
        THEN [status |-> 403, error |-> "Gecersiz token", user |-> NoToken]
        ELSE [status |-> 0, error |-> "", user |-> token.tok]

-----------------------------------------------------------------------------
(* POST /api/login *)

\* String.prototype.trim on a string given as chunks, " " being whitespace
RECURSIVE trimStart(_)
trimStart(cs) ==
    IF cs # <<>> /\ Head(cs) = " " THEN trimStart(Tail(cs)) ELSE cs

RECURSIVE trimEnd(_)
trimEnd(cs) ==
    IF cs # <<>> /\ cs[Len(cs)] = " " THEN trimEnd(SubSeq(cs, 1, Len(cs) - 1)) ELSE cs

trim(cs) == trimEnd(trimStart(cs))

\* property names every plain object inherits from Object.prototype
InheritedKeys == {<<"constructor">>}

\* a faulty lookupKey: the username is never trimmed
lookupKeyNoTrim(v, username) ==
    IF username.k = "string" THEN username.v ELSE <<"undefined">>

\* the key looked up in users: trimmed in part_001, verbatim in src/server.js
\* (where an undefined username is the property name "undefined")
lookupKey(v, username) ==
    IF v = "server"
    THEN IF username.k = "string" THEN username.v ELSE <<"undefined">>
    ELSE trim(IF Truthy(username) THEN username.v ELSE <<>>)

\* bcrypt.compareSync(s, hash) throws unless both are strings
compareSyncThrows(password, isRecord) == password.k # "string" \/ ~isRecord

NoUser == [key |-> <<>>, username |-> <<>>, password |-> hashSync(<<>>), role |-> ""]

loginHandler(v, body, file, t) ==
    LET u == lookupKey(v, body.username)
        own == {r \in file.users : r.key = u}
        user == IF own = {} THEN NoUser ELSE CHOOSE r \in own : TRUE
        found == own # {} \/ u \in InheritedKeys
        fail(status, error) == [status |-> status, error |-> error, token |-> NoToken]
    IN  IF ~file.exists \/ ~file.ok THEN fail(500, "Giris yapilamadi")
        ELSE IF ~found THEN fail(401, "Kullanici adi veya sifre hatali")
        ELSE IF compareSyncThrows(body.password, own # {}) THEN fail(500, "Giris yapilamadi")
        ELSE IF user.password # hashSync(body.password.v)
             THEN fail(401, "Kullanici adi veya sifre hatali")
        ELSE [status |-> 200, error |-> "",
              token |-> jwtSign(IF v = "server" THEN user.username ELSE u, user.role, t)]

-----------------------------------------------------------------------------
(* GET /api/prices and PUT /api/prices *)

getHandler(file) ==
    LET parsed == JSONparse(file.text)
    IN  IF file.exists /\ parsed.ok
        THEN [status |-> 200, error |-> "", doc |-> parsed.doc]
        ELSE [status |-> 500, error |-> "Fiyatlar alinamadi", doc |-> EmptyDoc]

\* a faulty invalidData: && in place of ||
invalidDataBothMissing(body) == ~Truthy(body.basePrices) /\ ~Truthy(body.districts)

\* !basePrices || !districts
invalidData(body) == ~Truthy(body.basePrices) \/ ~Truthy(body.districts)

\* req.user.role !== "admin"
notAdmin(user) == user.role # "admin"

\* a faulty updatedPrices: lastUpdated is new Date(0).toISOString()
updatedPricesEpoch(body, t) ==
    [basePrices |-> body.basePrices, districts |-> body.districts, lastUpdated |-> ISODate(0)]

\* updatedPrices
updatedPrices(body, t) ==
    [basePrices |-> body.basePrices, districts |-> body.districts, lastUpdated |-> ISODate(t)]

\* the synchronous part of PUT /api/prices, up to the call of fs.writeFile;
\* stage is the last step the request reached
putHandler(header, body, t) ==
    LET auth == authenticateToken(header, t)
        stop(stage, status, error) ==
            [stage |-> stage, status |-> status, error |-> error, doc |-> EmptyDoc]
    IN  IF auth.status # 0 THEN stop("guard", auth.status, auth.error)
        ELSE IF notAdmin(auth.user) THEN stop("role", 403, "Yetkisiz erisim")
        ELSE IF invalidData(body) THEN stop("validate", 400, "Gecersiz veri")
        ELSE [stage |-> "write", status |-> 0, error |-> "", doc |-> updatedPrices(body, t)]

-----------------------------------------------------------------------------
(* POST /api/contact *)

\* str.replace(/ch/g, rep) on a string given as a sequence of characters
RECURSIVE replaceAll(_, _, _)
replaceAll(cs, ch, with) ==
    IF cs = <<>> THEN <<>>
    ELSE (IF Head(cs) = ch THEN with ELSE <<Head(cs)>>) \o replaceAll(Tail(cs), ch, with)

escapeHtml(cs) ==
    LET amp == replaceAll(cs, "&", <<"&", "a", "m", "p", ";">>)
        lt == replaceAll(amp, "<", <<"&", "l", "t", ";">>)
        gt == replaceAll(lt, ">", <<"&", "g", "t", ";">>)
        quot == replaceAll(gt, "\"", <<"&", "q", "u", "o", "t", ";">>)
    IN  replaceAll(quot, "'", <<"&", "#", "0", "3", "9", ";">>)

\* what the template embeds for a field: escaped in part_001, `${field}` in src/server.js
embed(v, field) == IF v = "server" THEN field.v ELSE escapeHtml(field.v)

\* a faulty missingField: the message is not checked
missingFieldButMessage(body) ==
    ~Truthy(body.name) \/ ~Truthy(body.surname) \/ ~Truthy(body.email)

\* !name || !surname || !email || !message
missingField(body) ==
    ~Truthy(body.name) \/ ~Truthy(body.surname) \/ ~Truthy(body.email) \/ ~Truthy(body.message)

NoMail == [to |-> "", replyTo |-> Undefined, html |-> <<>>]

\* the message handed to transporter.sendMail / resend.emails.send; html is the
\* sequence of the four embedded fields, in the order of the template
mailOptions(v, body) ==
    [ to |-> CASE v = "server" -> "eyubogullariinsaat@gmail.com"
               [] v = "gmail" -> "EMAIL_USER"
               [] OTHER -> "EMAIL_TO",
      replyTo |-> IF v = "resend" THEN body.email ELSE Undefined,
      html |-> <<embed(v, body.name), embed(v, body.surname),
                 embed(v, body.email), embed(v, body.message)>> ]

\* how a send may end: the provider accepts it, answers {error} (Resend only),
\* or the call throws / the promise rejects
SendOutcomes(v) == IF v = "resend" THEN {"accepted", "error", "throws"} ELSE {"accepted", "throws"}

\* a faulty contactHandler: result.error of the provider's answer is not looked at
contactHandlerIgnoresError(v, body, configured, outcome) ==
    LET answer(status, error, mail) ==
            [status |-> status, error |-> error, success |-> status = 200, mail |-> mail]
        mail == mailOptions(v, body)
    IN  IF v # "server" /\ ~configured
        THEN answer(503, "E-posta servisi yapilandirilmadi", NoMail)
        ELSE IF missingField(body) THEN answer(400, "Tum alanlar zorunludur", NoMail)
        ELSE IF outcome \in {"accepted", "error"} THEN answer(200, "", mail)
        ELSE answer(500, "Mesaj gonderilemedi", mail)

contactHandler(v, body, configured, outcome) ==
    LET answer(status, error, mail) ==
            [status |-> status, error |-> error, success |-> status = 200, mail |-> mail]
        mail == mailOptions(v, body)
    IN  IF v # "server" /\ ~configured
        THEN answer(503, "E-posta servisi yapilandirilmadi", NoMail)
        ELSE IF missingField(body) THEN answer(400, "Tum alanlar zorunludur", NoMail)
        ELSE IF outcome = "accepted" THEN answer(200, "", mail)
        ELSE answer(500, "Mesaj gonderilemedi", mail)

-----------------------------------------------------------------------------
(* What clients and the environment may supply *)

MaxLen == 2

Chars == {"a", "&", "<", ">", "\"", "'"}

\* the strings of at most MaxLen characters
RECURSIVE StringsUpTo(_)
StringsUpTo(n) ==
    IF n = 0 THEN {<<>>}
    ELSE LET shorter == StringsUpTo(n - 1)
         IN  shorter \cup {Append(cs, c) : cs \in shorter, c \in Chars}

PlainFields == {Undefined, Str(<<>>), Str(<<"a">>)}

PlainBody == [name |-> Str(<<"a">>), surname |-> Str(<<"a">>), email |-> Str(<<"a">>),
              message |-> Str(<<"a">>)]

\* every combination of absent, empty and plain fields, and every string in each
\* field of an otherwise plain body
ContactBodies ==
    [name : PlainFields, surname : PlainFields, email : PlainFields, message : PlainFields]
    \cup {[PlainBody EXCEPT ![f] = Str(cs)] :
             f \in {"name", "surname", "email", "message"}, cs \in StringsUpTo(MaxLen)}

\* files a previous deployment may have left in the data directory
OldDoc ==
    [basePrices |-> Obj(<<Entry("p8", 100)>>), districts |-> Arr(<<Entry("Fatih", 10)>>),
     lastUpdated |-> ISODate(0)]

OldPricesFiles == {NoFile, File(JSONstringify(OldDoc))}

OldUsers ==
    defaultUsers \cup
    { [key |-> <<"bob">>, username |-> <<"bob">>, password |-> hashSync(<<"pw">>),
       role |-> "viewer"] }

OldUsersFiles == {NoUsersFile, UsersFileOf(OldUsers)}

Usernames ==
    {Undefined, Str(<<"admin">>), Str(<<" ", "admin">>), Str(<<"bob">>),
     Str(<<"constructor">>), Str(<<"eve">>)}

Passwords == {Undefined, Str(<<"admin123">>), Str(<<"pw">>)}

\* every username with the seeded password, every password with "admin" and "bob"
LoginBodies ==
    [username : Usernames, password : {Str(<<"admin123">>)}]
    \cup [username : {Str(<<"admin">>), Str(<<"bob">>)}, password : Passwords]

BasePricesValues ==
    {Undefined, Null, Obj(<<Entry("p8", 1)>>), Obj(<<Entry("p8", 2), Entry("p10", 3)>>)}

DistrictsValues ==
    {Undefined, Null, Arr(<<>>), Arr(<<Entry("Esenyurt", 0), Entry("Fatih", 5)>>)}

PutBodies == [basePrices : BasePricesValues, districts : DistrictsValues]

\* a token signed with another secret, claiming to be admin and never to expire
ForgedToken ==
    [username |-> <<"admin">>, role |-> "admin", iat |-> 0, exp |-> MaxTime + TokenTTL + 2,
     sig |-> "forged"]

\* the Authorization headers a client may build around a token
HeadersWith(tok) ==
    { Header(<<Word("Bearer"), JwtWord(tok)>>),
      Header(<<JwtWord(tok)>>),
      Header(<<Word("Bearer"), Word(""), JwtWord(tok)>>) }

PlainHeaders == {NoHeader, Header(<<Word("Bearer")>>), Header(<<Word("Bearer"), Word("garbage")>>)}

Bearer(tok) == Header(<<Word("Bearer"), JwtWord(tok)>>)

FullBody ==
    [basePrices |-> Obj(<<Entry("p8", 1)>>),
     districts |-> Arr(<<Entry("Esenyurt", 0), Entry("Fatih", 5)>>)]

\* every body behind a bearer token a login issued; a complete body and one
\* without districts behind every other header
PutRequests ==
    {<<Bearer(i.token), body>> : i \in issued, body \in PutBodies}
    \cup ( ( PlainHeaders \cup HeadersWith(ForgedToken)
             \cup UNION {HeadersWith(i.token) \ {Bearer(i.token)} : i \in issued} )
           \X {FullBody, [FullBody EXCEPT !.districts = Undefined]} )

\* the seeded administrator's login
AdminLogin == [username |-> Str(<<"admin">>), password |-> Str(<<"admin123">>)]

\* complete catalogs an administrator may send while another update is under
\* way: a longer and a shorter one
RaceBodies == {FullBody, [FullBody EXCEPT !.districts = Arr(<<>>)]}

\* a complete contact message and one without text
FrameContactBodies == {PlainBody, [PlainBody EXCEPT !.message = Str(<<>>)]}

-----------------------------------------------------------------------------
(* State *)

\* no response is waiting to be read
Idle == [op |-> "idle"]

NoWrite == [kind |-> "none", body |-> [basePrices |-> Undefined, districts |-> Undefined],
            prev |-> Undefined, alone |-> FALSE]

Init ==
    /\ variant \in Variants
    /\ up = FALSE
    /\ now = 0
    /\ pricesFile \in OldPricesFiles
    /\ usersFile \in OldUsersFiles
    /\ transporter = FALSE
    /\ credential = FALSE
    /\ issued = {}
    /\ inflight = {}
    /\ lastWrite = NoWrite
    /\ transportCalls = 0
    /\ last = Idle

\* a faulty Boot: ensureDataFiles writes the default catalog without fs.access
BootOverwrites(mailEnv) ==
    /\ last = Idle
    /\ ~up
    /\ up' = TRUE
    /\ transporter' = (variant = "server" \/ mailEnv)
    /\ credential' = mailEnv
    /\ pricesFile' = File(JSONstringify(defaultPrices(variant, now)))
    /\ usersFile' = IF usersFile.exists THEN usersFile ELSE UsersFileOf(defaultUsers)
    /\ lastWrite' = [NoWrite EXCEPT !.kind = "seed"]
    /\ last' = [op |-> "boot", seeded |-> TRUE]
    /\ UNCHANGED <<variant, now, issued, inflight, transportCalls>>

\* startServer: the module is loaded (the transport handle is built from the
\* environment, mailEnv = the provider credential is set), then ensureDataFiles
Boot(mailEnv) ==
    /\ last = Idle
    /\ ~up
    /\ up' = TRUE
    /\ transporter' = (variant = "server" \/ mailEnv)
    /\ credential' = mailEnv
    /\ pricesFile' = IF pricesFile.exists THEN pricesFile
                     ELSE File(JSONstringify(defaultPrices(variant, now)))
    /\ usersFile' = IF usersFile.exists THEN usersFile ELSE UsersFileOf(defaultUsers)
    /\ lastWrite' = IF pricesFile.exists THEN lastWrite
                    ELSE [NoWrite EXCEPT !.kind = "seed"]
    /\ last' = [op |-> "boot", seeded |-> ~pricesFile.exists]
    /\ UNCHANGED <<variant, now, issued, inflight, transportCalls>>

\* the process ends (SIGTERM, or killed): writes still in flight are lost
Shutdown ==
    /\ last = Idle
    /\ up
    /\ up' = FALSE
    /\ transporter' = FALSE
    /\ credential' = FALSE
    /\ inflight' = {}
    /\ last' = [op |-> "shutdown"]
    /\ UNCHANGED <<variant, now, pricesFile, usersFile, issued, lastWrite, transportCalls>>

\* time passes
Tick ==
    /\ last = Idle
    /\ now < MaxTime
    /\ now' = now + 1
    /\ last' = [op |-> "tick"]
    /\ UNCHANGED <<variant, up, pricesFile, usersFile, transporter, credential, issued, inflight,
                   lastWrite, transportCalls>>

Login(body) ==
    /\ last = Idle
    /\ up
    /\ LET r == loginHandler(variant, body, usersFile, now)
       IN  /\ issued' = IF r.status = 200 /\ Cardinality(issued) < MaxTokens
                        THEN issued \cup {[token |-> r.token, at |-> now]}
                        ELSE issued
           /\ last' = [op |-> "login", body |-> body, status |-> r.status,
                       error |-> r.error, token |-> r.token]
    /\ UNCHANGED <<variant, up, now, pricesFile, usersFile, transporter, credential, inflight,
                   lastWrite, transportCalls>>

\* a faulty GetPrices: a price file that cannot be read is written anew
GetPricesRecreates ==
    /\ last = Idle
    /\ up
    /\ LET r == getHandler(pricesFile)
       IN  /\ last' = [op |-> "get", status |-> r.status, error |-> r.error, doc |-> r.doc]
           /\ pricesFile' = IF r.status = 200 THEN pricesFile
                            ELSE File(JSONstringify(defaultPrices(variant, now)))
    /\ UNCHANGED <<variant, up, now, usersFile, transporter, credential, issued, inflight,
                   lastWrite, transportCalls>>

GetPrices ==
    /\ last = Idle
    /\ up
    /\ LET r == getHandler(pricesFile)
       IN  last' = [op |-> "get", status |-> r.status, error |-> r.error, doc |-> r.doc]
    /\ UNCHANGED <<variant, up, now, pricesFile, usersFile, transporter, credential, issued, inflight,
                   lastWrite, transportCalls>>

\* PUT /api/prices up to the await of fs.writeFile, with at most limit calls of
\* fs.writeFile unsettled. A call is alone if no other call is unsettled at any
\* time between this step and its settling
PutPricesUpTo(header, body, limit) ==
    /\ last = Idle
    /\ up
    /\ LET r == putHandler(header, body, now)
           w == [body |-> body, doc |-> r.doc, opened |-> FALSE,
                 prev |-> getHandler(pricesFile).doc.lastUpdated, alone |-> inflight = {}]
       IN  /\ r.stage = "write" => Cardinality(inflight \cup {w}) <= limit
           /\ inflight' = IF r.stage = "write"
                          THEN {[x EXCEPT !.alone = FALSE] : x \in inflight} \cup {w}
                          ELSE inflight
           /\ last' = [op |-> "put", header |-> header, body |-> body, stage |-> r.stage,
                       status |-> r.status, error |-> r.error]
    /\ UNCHANGED <<variant, up, now, pricesFile, usersFile, transporter, credential, issued,
                   lastWrite, transportCalls>>

PutPrices(header, body) == PutPricesUpTo(header, body, MaxInflight)

\* fs.writeFile opens the file for writing (flag 'w'): it is truncated, and the
\* data is written by a later step of the same call
PutOpen(w) ==
    /\ last = Idle
    /\ up
    /\ w \in inflight
    /\ ~w.opened
    /\ inflight' = (inflight \ {w}) \cup {[w EXCEPT !.opened = TRUE]}
    /\ pricesFile' = File(<<>>)
    /\ lastWrite' = [NoWrite EXCEPT !.kind = "open"]
    /\ last' = [op |-> "put-open", body |-> w.body]
    /\ UNCHANGED <<variant, up, now, usersFile, transporter, credential, issued, transportCalls>>

\* a faulty PutLand: the data replaces whatever the file holds
PutLandWhole(w) ==
    /\ last = Idle
    /\ up
    /\ w \in inflight
    /\ w.opened
    /\ inflight' = inflight \ {w}
    /\ pricesFile' = File(JSONstringify(w.doc))
    /\ lastWrite' = [kind |-> IF pricesFile.text = <<>> THEN "put" ELSE "raced",
                     body |-> w.body, prev |-> w.prev, alone |-> w.alone]
    /\ last' = [op |-> "put-land", body |-> w.body, status |-> 200, doc |-> w.doc]
    /\ UNCHANGED <<variant, up, now, usersFile, transporter, credential, issued, transportCalls>>

\* fs.writeFile writes the data from the start of the opened file and resolves:
\* res.json(updatedPrices). The write is the only one since the file was
\* truncated (kind "put"), or it lands on what another call wrote meanwhile
PutLand(w) ==
    /\ last = Idle
    /\ up
    /\ w \in inflight
    /\ w.opened
    /\ inflight' = inflight \ {w}
    /\ pricesFile' = File(overwrite(pricesFile.text, JSONstringify(w.doc)))
    /\ lastWrite' = [kind |-> IF pricesFile.text = <<>> THEN "put" ELSE "raced",
                     body |-> w.body, prev |-> w.prev, alone |-> w.alone]
    /\ last' = [op |-> "put-land", body |-> w.body, status |-> 200, doc |-> w.doc]
    /\ UNCHANGED <<variant, up, now, usersFile, transporter, credential, issued, transportCalls>>

\* fs.writeFile rejects: 500; the open failed and the file is as it was, or the
\* write failed and the file stays as the open and other writes left it
PutFail(w) ==
    /\ last = Idle
    /\ up
    /\ w \in inflight
    /\ inflight' = inflight \ {w}
    /\ last' = [op |-> "put-fail", body |-> w.body, status |-> 500,
                error |-> "Fiyatlar guncellenemedi"]
    /\ UNCHANGED <<variant, up, now, pricesFile, usersFile, transporter, credential, issued,
                   lastWrite, transportCalls>>

\* POST /api/contact, with the outcome of the send if the transport is invoked
Contact(body, outcome) ==
    /\ last = Idle
    /\ up
    /\ transportCalls < MaxCalls
    /\ LET r == contactHandler(variant, body, transporter, outcome)
       IN  /\ transportCalls' = IF r.mail # NoMail THEN transportCalls + 1 ELSE transportCalls
           /\ last' = [op |-> "contact", body |-> body, outcome |-> outcome,
                       status |-> r.status, error |-> r.error, success |-> r.success,
                       mail |-> r.mail]
    /\ UNCHANGED <<variant, up, now, pricesFile, usersFile, transporter, credential, issued, inflight,
                   lastWrite>>

\* the response of the step taken last has been read; the next step may begin
Respond ==
    /\ last # Idle
    /\ last' = Idle
    /\ UNCHANGED <<variant, up, now, pricesFile, usersFile, transporter, credential, issued, inflight,
                   lastWrite, transportCalls>>

Next ==
    \/ Respond
    \/ Boot(TRUE)
    \/ Shutdown
    \/ Tick
    \/ \E body \in LoginBodies : Login(body)
    \/ GetPrices
    \/ \E req \in PutRequests : PutPrices(req[1], req[2])
    \/ \E w \in inflight : PutOpen(w)
    \/ \E w \in inflight : PutLand(w)
    \/ \E w \in inflight : PutFail(w)

Spec == Init /\ [][Next]_vars

\* the contact relay: boots under either mail configuration, and contact requests
NextContact ==
    \/ Respond
    \/ \E mailEnv \in BOOLEAN : Boot(mailEnv)
    \/ Shutdown
    \/ \E body \in ContactBodies, outcome \in SendOutcomes(variant) : Contact(body, outcome)

SpecContact == Init /\ [][NextContact]_vars

\* administrators updating the catalog at the same time: up to MaxRacing calls
\* of fs.writeFile are unsettled, and their steps interleave in any order
NextRace ==
    \/ Respond
    \/ Boot(TRUE)
    \/ Tick
    \/ Login(AdminLogin)
    \/ GetPrices
    \/ \E i \in issued, body \in RaceBodies : PutPricesUpTo(Bearer(i.token), body, MaxRacing)
    \/ \E w \in inflight : PutOpen(w)
    \/ \E w \in inflight : PutLand(w)
    \/ \E w \in inflight : PutFail(w)

SpecRace == Init /\ [][NextRace]_vars

\* every route together: the requests of Next, and contact requests
NextAll ==
    \/ Next
    \/ \E body \in FrameContactBodies, outcome \in SendOutcomes(variant) : Contact(body, outcome)

SpecAll == Init /\ [][NextAll]_vars

-----------------------------------------------------------------------------
(* Properties *)

\* the tokens a request carries in any word of its Authorization header
Presented(header) ==
    IF header.present
    THEN {header.words[i].tok : i \in {j \in 1..Len(header.words) : header.words[j].w = "jwt"}}
    ELSE {}

\* a token that must not authorize an update at time t: signed with another
\* secret, issued 24 hours ago or earlier, or of a role other than admin
BadToken(tok, t) ==
    tok.sig # "JWT_SECRET" \/ t >= tok.iat + TokenTTL \/ tok.role # "admin"

\* Authorization: Bearer <token>, the token being a valid admin token at time t
GoodAdminBearer(header, t) ==
    /\ header.present
    /\ Len(header.words) = 2
    /\ header.words[1].w = "Bearer"
    /\ header.words[2].w = "jwt"
    /\ ~BadToken(header.words[2].tok, t)

\* the property is absent from the body, or null
Lacks(x) == x.k \in {"undefined", "null"}

\* C1: once the write of an admin PUT /api/prices with basePrices and districts
\* has landed, and until another write lands, GET /api/prices answers 200 with
\* exactly the basePrices and districts of that request and a lastUpdated that
\* is not earlier than the lastUpdated that was stored when the PUT was handled.
C1_PutThenGet ==
    lastWrite.kind = "put" =>
        LET r == getHandler(pricesFile)
        IN  /\ r.status = 200
            /\ r.doc.basePrices = lastWrite.body.basePrices
            /\ r.doc.districts = lastWrite.body.districts
            /\ r.doc.lastUpdated.k = "string"
            /\ lastWrite.prev.k = "string" => r.doc.lastUpdated.n >= lastWrite.prev.n

\* a GET after a landed PUT that replaced an older catalog
C1_Witness ==
    /\ last.op = "get"
    /\ last.status = 200
    /\ lastWrite.kind = "put"
    /\ lastWrite.prev.k = "string"
    /\ last.doc.lastUpdated.n > lastWrite.prev.n
    /\ last.doc.districts = Arr(<<Entry("Esenyurt", 0), Entry("Fatih", 5)>>)

\* C2: a PUT /api/prices that carries no token, or only tokens that are
\* expired, badly signed or of a role other than admin, is refused and leaves
\* the price file as it was and schedules no write, whatever its body.
C2_RefusedPutKeepsCatalog ==
    [][ ( /\ last'.op = "put"
          /\ \A tok \in Presented(last'.header) : BadToken(tok, now) )
        => /\ last'.status \in {401, 403}
           /\ pricesFile' = pricesFile
           /\ inflight' = inflight ]_vars

\* an expired admin token was presented with a complete body and refused
C2_Witness ==
    /\ last.op = "put"
    /\ last.body = FullBody
    /\ \E i \in issued :
          /\ last.header = Bearer(i.token)
          /\ i.token.role = "admin"
          /\ now >= i.at + TokenTTL
    /\ last.status = 403

\* C3: an admin PUT /api/prices whose body lacks basePrices or lacks districts
\* (absent or null) is answered 400, and the price file is as it was and no
\* write is scheduled.
C3_PartialPutRejected ==
    [][ ( /\ last'.op = "put"
          /\ GoodAdminBearer(last'.header, now)
          /\ Lacks(last'.body.basePrices) \/ Lacks(last'.body.districts) )
        => /\ last'.status = 400
           /\ pricesFile' = pricesFile
           /\ inflight' = inflight ]_vars

\* an admin sent basePrices without districts and got 400
C3_Witness ==
    /\ last.op = "put"
    /\ GoodAdminBearer(last.header, now)
    /\ ~Lacks(last.body.basePrices)
    /\ last.body.districts = Undefined
    /\ last.status = 400

\* s is key with whitespace before and after it
Padded(s, key) ==
    \E i \in 0..Len(s), j \in 0..Len(s) :
        /\ i + Len(key) + j = Len(s)
        /\ SubSeq(s, i + 1, i + Len(key)) = key
        /\ \A k \in (1..i) \cup ((Len(s) - j + 1)..Len(s)) : s[k] = " "

\* the submitted username names the record stored under key: exactly, or
\* (where exact is FALSE) once surrounding whitespace is removed
Names(exact, username, key) ==
    /\ username.k = "string"
    /\ IF exact THEN username.v = key ELSE Padded(username.v, key)

\* the records of the credential store whose key the username names and whose
\* hash the submitted password matches
Matching(exact, body) ==
    {r \in usersFile.users :
        /\ Names(exact, body.username, r.key)
        /\ body.password.k = "string"
        /\ r.password = hashSync(body.password.v)}

\* the username names no record, or the password is a string that does not match
Mismatch(exact, body) ==
    \/ /\ ~\E r \in usersFile.users : Names(exact, body.username, r.key)
       /\ body.username.k = "string" => body.username.v \notin InheritedKeys
    \/ /\ body.password.k = "string"
       /\ \E r \in usersFile.users :
             Names(exact, body.username, r.key) /\ r.password # hashSync(body.password.v)

\* C4, as stated: a login returns a token exactly when the username is exactly a
\* key of the credential store and the password matches that record's hash;
\* every other login returns 401 and no token; a token returned for the seeded
\* admin authorizes PUT /api/prices.
C4_ExactUsernameOr401 ==
    last.op = "login" =>
        LET ok == Matching(TRUE, last.body) # {}
        IN  /\ (last.status = 200 /\ last.token # NoToken) <=> ok
            /\ ~ok => (last.status = 401 /\ last.token = NoToken)
            /\ (ok /\ Matching(TRUE, last.body) \subseteq defaultUsers)
                 => putHandler(Bearer(last.token), FullBody, now).stage = "write"

\* C4, amended: a login returns a token exactly when the username (verbatim in
\* src/server.js, with surrounding whitespace removed in the two part_001
\* servers) is a key of the credential store and the password matches that
\* record's hash; every other login returns no token, with 401 when the
\* username names no record or the password is a string that does not match,
\* and 500 otherwise; a token returned for the seeded admin authorizes PUT
\* /api/prices.
C4_LoginIssuesToken ==
    last.op = "login" =>
        LET exact == variant = "server"
            ok == Matching(exact, last.body) # {}
        IN  /\ (last.status = 200 /\ last.token # NoToken) <=> ok
            /\ ~ok => (last.status \in {401, 500} /\ last.token = NoToken)
            /\ ~ok => (last.status = 401 <=> Mismatch(exact, last.body))
            /\ (ok /\ Matching(exact, last.body) \subseteq defaultUsers)
                 => putHandler(Bearer(last.token), FullBody, now).stage = "write"

\* the seeded admin logged in with whitespace before the username
C4_Witness ==
    /\ last.op = "login"
    /\ last.body.username = Str(<<" ", "admin">>)
    /\ last.status = 200
    /\ last.token.role = "admin"
    /\ usersFile = UsersFileOf(defaultUsers)

\* a field of the contact form is missing or empty
Blank(x) == x.k = "undefined" \/ x = Str(<<>>)

AnyBlank(body) ==
    Blank(body.name) \/ Blank(body.surname) \/ Blank(body.email) \/ Blank(body.message)

\* C5, as stated: a contact request with a missing or empty field returns 400
\* and does not invoke the transport, whether or not a transport is configured.
C5_BlankFieldIs400 ==
    [][ (last'.op = "contact" /\ AnyBlank(last'.body))
        => (last'.status = 400 /\ transportCalls' = transportCalls) ]_vars

\* C5, amended: a contact request with a missing or empty field never invokes
\* the transport; it returns 400 when a transport is configured (always, in
\* src/server.js) and 503 when none is.
C5_BlankFieldNeverSent ==
    [][ (last'.op = "contact" /\ AnyBlank(last'.body))
        => /\ transportCalls' = transportCalls
           /\ last'.status = IF variant # "server" /\ ~transporter THEN 503 ELSE 400 ]_vars

\* an empty message was refused with 400 under a configured transport
C5_Witness ==
    /\ last.op = "contact"
    /\ last.body = [PlainBody EXCEPT !.message = Str(<<>>)]
    /\ transporter
    /\ last.status = 400
    /\ transportCalls = 0

\* C6: a contact request with all four fields, under a configured transport
\* that accepts the send, returns {success: true}, and the message handed to
\* the transport goes to the configured destination with the submitted email
\* as its reply-to.
C6_SentWithReplyTo ==
    ( /\ last.op = "contact"
      /\ ~AnyBlank(last.body)
      /\ transporter
      /\ last.outcome = "accepted" )
    => /\ last.status = 200
       /\ last.success
       /\ last.mail.to \in {"eyubogullariinsaat@gmail.com", "EMAIL_USER", "EMAIL_TO"}
       /\ last.mail.replyTo = last.body.email

\* the entity of a character
Entity(c) ==
    CASE c = "&" -> <<"&", "a", "m", "p", ";">>
      [] c = "<" -> <<"&", "l", "t", ";">>
      [] c = ">" -> <<"&", "g", "t", ";">>
      [] c = "\"" -> <<"&", "q", "u", "o", "t", ";">>
      [] c = "'" -> <<"&", "#", "0", "3", "9", ";">>
      [] OTHER -> <<c>>

\* the string in which every markup character stands as its entity
RECURSIVE Entities(_)
Entities(cs) == IF cs = <<>> THEN <<>> ELSE Entity(Head(cs)) \o Entities(Tail(cs))

\* C7: in the body of every message handed to the transport, each of the
\* characters & < > " ' of the submitted name, surname, email and message
\* stands as its entity.
C7_FieldsEscaped ==
    (last.op = "contact" /\ last.mail # NoMail) =>
        last.mail.html = <<Entities(last.body.name.v), Entities(last.body.surname.v),
                           Entities(last.body.email.v), Entities(last.body.message.v)>>

\* the catalog ensureDataFiles writes, but for its lastUpdated
IsDefaultCatalog(doc) ==
    /\ doc.basePrices = Obj(<<Entry("p8", 24500), Entry("p10", 24200), Entry("p12", 23900)>>)
    /\ doc.districts = Arr(IF variant = "resend" THEN <<Entry("Esenyurt", 0)>>
                           ELSE IstanbulDistricts)
    /\ doc.lastUpdated.k = "string"

\* C8: a boot that finds no price file leaves one from which GET /api/prices
\* answers the default catalog; a boot that finds a price file leaves it as it
\* is, whatever it holds.
C8_BootSeedsOnlyIfAbsent ==
    [][ (~up /\ up')
        => IF pricesFile.exists
           THEN pricesFile' = pricesFile
           ELSE LET r == getHandler(pricesFile')
                IN  r.status = 200 /\ IsDefaultCatalog(r.doc) ]_vars

\* a restart after an admin's PUT landed: the file still holds that catalog
C8_Witness ==
    /\ last.op = "boot"
    /\ ~last.seeded
    /\ lastWrite.kind = "put"
    /\ getHandler(pricesFile).doc.basePrices = lastWrite.body.basePrices

\* the second word of the Authorization header, if there is one
Supplied(header) ==
    header.present /\ Len(header.words) >= 2 /\ header.words[2].w # ""

\* the supplied word is no token the server signed, or one issued 24 hours ago
\* or earlier
Invalid(word, t) ==
    word.w # "jwt" \/ word.tok.sig # "JWT_SECRET" \/ t >= word.tok.iat + TokenTTL

\* C9: PUT /api/prices answers 401 MissingToken when no bearer token is
\* supplied and InvalidToken when the token is badly signed or expired, both in
\* the guard; otherwise the handler runs, and answers 403 when the role is not
\* admin; the role check, the validation and the write are reached only with a
\* token the guard accepted.
C9_GuardBeforeHandler ==
    last.op = "put" =>
        LET h == last.header
        IN  /\ ~Supplied(h)
                => (last.stage = "guard" /\ last.status = 401 /\ last.error = "Token gerekli")
            /\ (Supplied(h) /\ Invalid(h.words[2], now))
                => ( /\ last.stage = "guard"
                     /\ last.status \in {401, 403}
                     /\ last.error = "Gecersiz token" )
            /\ (Supplied(h) /\ ~Invalid(h.words[2], now))
                => /\ last.stage # "guard"
                   /\ h.words[2].tok.role # "admin"
                        => (last.stage = "role" /\ last.status = 403)
                   /\ h.words[2].tok.role = "admin" => last.stage \in {"validate", "write"}
            /\ last.stage # "guard" => (Supplied(h) /\ ~Invalid(h.words[2], now))

\* a valid token of another role passed the guard and was refused by the handler
C9_Witness ==
    /\ last.op = "put"
    /\ Supplied(last.header)
    /\ ~Invalid(last.header.words[2], now)
    /\ last.header.words[2].tok.role = "viewer"
    /\ last.stage = "role"
    /\ last.status = 403

\* C10: a token a login issued at time t passes the guard at every time before
\* t + 24 hours and is refused by it at every time after t + 24 hours, whatever
\* happened in between.
C10_ValidFor24Hours ==
    \A i \in issued :
        LET r == authenticateToken(Bearer(i.token), now)
        IN  /\ now < i.at + TokenTTL
                => ( /\ r.status = 0
                     /\ r.user.username = i.token.username
                     /\ r.user.role = i.token.role )
            /\ now > i.at + TokenTTL => r.status = 403

\* after a catalog write and a restart, an issued token has expired and is refused
C10_Witness ==
    /\ \E i \in issued : now > i.at + TokenTTL
    /\ lastWrite.kind = "put"
    /\ last.op = "put"
    /\ last.header \in {Bearer(i.token) : i \in issued}
    /\ last.status = 403

\* C11: whether the relay is available is decided at boot from the presence
\* of the provider credential and stays as decided while the server runs;
\* without the credential every contact request answers 503 and the transport
\* is not invoked, with it no contact request answers 503.
C11_AvailabilityFromCredential ==
    [][ /\ (up /\ up') => (transporter' = transporter /\ credential' = credential)
        /\ (last'.op = "contact" /\ ~credential)
            => (last'.status = 503 /\ transportCalls' = transportCalls)
        /\ (last'.op = "contact" /\ credential) => last'.status # 503 ]_vars

\* C12: a contact request whose send is rejected or throws answers the generic
\* 500 error; a contact request invokes the transport at most once, and a step
\* that is not a contact request never invokes it: nothing is sent again.
C12_FailedSendIs500Once ==
    [][ /\ transportCalls' \in {transportCalls, transportCalls + 1}
        /\ last'.op # "contact" => transportCalls' = transportCalls
        /\ (last'.op = "contact" /\ last'.mail # NoMail /\ last'.outcome # "accepted")
            => /\ last'.status = 500
               /\ last'.error = "Mesaj gonderilemedi"
               /\ ~last'.success
               /\ transportCalls' = transportCalls + 1 ]_vars

\* a second send the provider answered with an error: 500, two invocations in all
C12_Witness ==
    /\ last.op = "contact"
    /\ last.outcome = "error"
    /\ last.mail # NoMail
    /\ last.status = 500
    /\ transportCalls = 2

\* C13: when a write of an admin PUT lands and no other write is unsettled, the
\* price file holds exactly the document of that request: its basePrices, its
\* districts and its lastUpdated, and nothing of any other request.
C13_LastWriteWinsWhole ==
    (last.op = "put-land" /\ inflight = {}) => pricesFile = File(JSONstringify(last.doc))

\* C14, as stated: no step takes the stored catalog's lastUpdated to an earlier
\* time, also when the writes of two admin PUTs land in the opposite order of
\* their stamps.
C14_LastUpdatedNeverDecreases ==
    [][ LET old == getHandler(pricesFile)
            new == getHandler(pricesFile')
        IN  ( /\ old.status = 200 /\ old.doc.lastUpdated.k = "string"
              /\ new.status = 200 /\ new.doc.lastUpdated.k = "string" )
            => new.doc.lastUpdated.n >= old.doc.lastUpdated.n ]_vars

\* C14, amended: when the write of an admin PUT has landed and no other write
\* was unsettled at any time since that PUT was handled, the stored lastUpdated
\* is not earlier than the lastUpdated stored when the PUT was handled.
C14_NoDecreaseUnlessOverlapping ==
    (lastWrite.kind = "put" /\ lastWrite.alone /\ lastWrite.prev.k = "string")
    => LET r == getHandler(pricesFile)
       IN  /\ r.status = 200
           /\ r.doc.lastUpdated.k = "string"
           /\ r.doc.lastUpdated.n >= lastWrite.prev.n

\* a PUT handled with no write unsettled has moved lastUpdated forward from a
\* time this server had stamped
C14_Witness ==
    /\ lastWrite.kind = "put"
    /\ lastWrite.alone
    /\ lastWrite.prev.k = "string"
    /\ lastWrite.prev.n > 0
    /\ getHandler(pricesFile).doc.lastUpdated.n > lastWrite.prev.n

\* the request carries a token the guard accepts, of role admin, and both
\* basePrices and districts
AcceptedPut(header, body, t) ==
    /\ Supplied(header)
    /\ ~Invalid(header.words[2], t)
    /\ header.words[2].tok.role = "admin"
    /\ ~Lacks(body.basePrices)
    /\ ~Lacks(body.districts)

\* C15: while the server runs, the credential store never changes; the price
\* file changes only in a step of the file write of a PUT /api/prices, and a
\* file write is started only by a PUT that passed the guard, the admin role
\* check and the validation; login, GET /api/prices, contact and the handling
\* of a PUT up to its write leave both files as they are.
C15_OnlyAcceptedPutWrites ==
    [][ (up /\ up')
        => /\ usersFile' = usersFile
           /\ pricesFile' # pricesFile
                => ( /\ last'.op \in {"put-open", "put-land"}
                     /\ \E w \in inflight : w.body = last'.body /\ w \notin inflight' )
           /\ ~(inflight' \subseteq inflight) /\ last'.op = "put"
                => AcceptedPut(last'.header, last'.body, now)
           /\ ~(inflight' \subseteq inflight)
                => last'.op \in {"put", "put-open"}
           /\ last'.op \in {"login", "get", "contact", "put"}
                => pricesFile' = pricesFile ]_vars

\* after a login, a contact message that was sent and an admin's update that
\* landed, a GET: the credential store is the seeded one
C15_Witness ==
    /\ last.op = "get"
    /\ last.status = 200
    /\ issued # {}
    /\ transportCalls > 0
    /\ lastWrite.kind = "put"
    /\ usersFile = UsersFileOf(defaultUsers)

====
